---- MODULE Spec2Model ----
(***************************************************************************)
(* A model of ultimaker/api.py: the Printer class (credential lifecycle,  *)
(* authenticated requests, the status snapshot) talking to one printer.   *)
(*                                                                         *)
(* The program state is the Printer object's mutable fields.  The printer *)
(* itself is modelled by the credentials it has issued, the ones it still *)
(* recognises and the ones the operator has approved.  Every HTTP request *)
(* a method makes is answered by the device or fails in the transport;    *)
(* a method is a set-valued operator: the set of its outcomes, one for    *)
(* each way its requests can be answered and each way the device can      *)
(* change between them.  Each public method is one action that picks one  *)
(* outcome and commits it; the caller then takes the result and is free   *)
(* to call again.                                                          *)
(***************************************************************************)
EXTENDS Integers, Sequences, FiniteSets, TLC

\* ------------------------------------------------------------------ bounds
\* The number of (id, key) pairs the device issues in one behaviour.
MaxIssued == 3
\* The number of distinct camera frames (image byte strings).
MaxFrame == 3

\* -------------------------------------------------------------- the state
VARIABLES
  credentials,          \* Printer.credentials: NoCred (None) or an (id, key) pair
  name,                 \* Printer.name: NoName (None) or the last fetched name
  camera_snapshot_uri,  \* Printer.camera_snapshot_uri: NoSnapshot or (uri, hash)
  issued,               \* device: how many pairs auth/request has issued
  known,                \* device: ids it recognises (auth/verify answers non-401)
  approved,             \* device: ids the operator has approved on the screen
  op,                   \* the public method whose call has come back ("none":
                        \* the caller is free to call)
  pre,                  \* Printer.credentials when that call started
  outcome,              \* "returned" or "raised" ("none": no call to look at)
  exc,                  \* the exception it raised (NoExc when it returned)
  value,                \* the value it returned
  log,                  \* the HTTP requests that call sent, in order
  rejected,             \* history: the ids get_credentials dropped after a 401
                        \* answer of auth/verify in the calls before this one
  print_job_dict,       \* a print-job record as the device sent it
  field_order,          \* the order in which its items() come (the wire order)
  print_job,            \* the PrintJob parsed from it (JNone: none)
  callers,              \* the threads that call this Printer: where each is in
                        \* its call and what it holds
  exclusive,            \* whether the callers take turns (one call at a time)
  holder,               \* the caller whose turn it is (0: nobody's)
  hazards               \* history: what has gone wrong between the callers

jobvars == <<print_job_dict, field_order, print_job>>
concvars == <<callers, exclusive, holder, hazards>>

vars == <<credentials, name, camera_snapshot_uri, issued, known, approved,
          op, pre, outcome, exc, value, log, rejected, jobvars, concvars>>

\* ------------------------------------------------------------ data values
\* Credentials(id, key); None is the pair (0, 0), which the device never issues.
NoCred == [id |-> 0, key |-> 0]
\* The pair the device issues n-th: opaque strings, here the index itself.
Cred(n) == [id |-> n, key |-> n]

NoExc == "none"
NoValue == "none"

\* What json() gives: a JSON string, a JSON number or a JSON object.
JStr(x) == [str |-> x]
JNum(n) == [num |-> n]
\* The JSON object of an error answer, {"message": "..."}
ErrDict == [message |-> "error"]
\* None where a JSON value is expected
JNone == [none |-> NoValue]
\* The text of a JSON string or of an object's message ("" for any other value)
TextOf(j) ==
  IF "str" \in DOMAIN j THEN j.str
  ELSE IF "message" \in DOMAIN j THEN j.message ELSE ""

NoName == JNone
Names == {JStr("U1"), JStr("U2")}
StatusValues == {JStr("idle"), JStr("printing")}

\* Camera frames 1..MaxFrame are decodable images, frame 0 is not an image.
Frames == 1..MaxFrame
BadFrame == 0
ContentType == "image/jpeg"
NoHash == 0
NoSnapshot == [uri |-> [content_type |-> "None", base64 |-> 0], hash |-> NoHash]

\* imagehash.phash: frames 2k-1 and 2k look the same, other pairs differ.
PHash(f) == (f + 1) \div 2

\* -------------------------------------------------- outcomes of a method
\* The Printer and device fields a method reads and writes, threaded through.
Self == [credentials |-> credentials, name |-> name,
         camera_snapshot_uri |-> camera_snapshot_uri,
         issued |-> issued, known |-> known, approved |-> approved,
         log |-> <<>>]

Ok(s, v) == [s |-> s, exc |-> NoExc, ret |-> v]
\* dflt only gives the unused ret field the type of the method's results.
Raise(s, e, dflt) == [s |-> s, exc |-> e, ret |-> dflt]

\* -------------------------------------------------------- HTTP transport
\* requests.get/post/put(..., timeout=self.timeout): an answer, or an exception.
\* An answer is [kind, code, parses, body]: body is what json() gives when the
\* body parses; dflt only gives the unused body field the endpoint's type.
TimeoutAns(dflt) == [kind |-> "timeout", code |-> 0, parses |-> FALSE, body |-> dflt]
ConnErrAns(dflt) == [kind |-> "connerr", code |-> 0, parses |-> FALSE, body |-> dflt]
TransportFailures(dflt) == {TimeoutAns(dflt), ConnErrAns(dflt)}
TransportExc(a) == IF a.kind = "timeout" THEN "Timeout" ELSE "ConnectionError"
Http(code, body) == [kind |-> "http", code |-> code, parses |-> TRUE, body |-> body]
HttpNotJson(code, dflt) == [kind |-> "http", code |-> code, parses |-> FALSE, body |-> dflt]

\* One sent request, as the call's log keeps it.
Entry(s, ep, auth, arg, a, newcred) ==
  [ep |-> ep,                 \* endpoint
   auth |-> auth,             \* the digest credential it carries (NoCred: none)
   arg |-> arg,               \* the id in the path of auth/check (else 0)
   stored |-> s.credentials,  \* Printer.credentials when it was sent
   kind |-> a.kind,           \* "http", "timeout" or "connerr"
   code |-> a.code,           \* the HTTP status
   issued |-> newcred,        \* the pair an auth/request answer carried
   \* the text the answer carried ("": none)
   msg |-> IF a.kind = "http" /\ a.parses /\ ep # "camera" THEN TextOf(a.body) ELSE "",
   \* the image bytes the camera answered with (BadFrame: none, or no image)
   frame |-> IF a.kind = "http" /\ ep = "camera" THEN a.body ELSE BadFrame]

Sent(s, e) == [s EXCEPT !.log = Append(@, e)]

\* ------------------------------------------------------------ the device
\* POST auth/request: the device issues the next fresh pair and recognises it
\* from then on, or answers with an error object, or with no JSON at all.
AuthRequestAnswers(s) ==
  TransportFailures(ErrDict)
    \cup {Http(400, ErrDict), HttpNotJson(500, ErrDict)}
    \cup (IF s.issued < MaxIssued THEN {Http(200, Cred(s.issued + 1))} ELSE {})

\* The device recognises a digest credential: an id it knows, with its key.
Recognises(s, c) == c.id \in s.known /\ c = Cred(c.id)

\* GET auth/verify: 401 iff the digest credential is unknown to the device.
AuthVerifyAnswers(s) ==
  TransportFailures(JNone)
    \cup {Http(IF Recognises(s, s.credentials) THEN 200 ELSE 401, JNone)}

\* GET auth/check/{id}: the approval state of that id.
CheckMessage(s, id) ==
  IF id \in s.approved THEN "authorized"
  ELSE IF id \in s.known THEN "unauthorized" ELSE "unknown"
AuthCheckAnswers(s, id) ==
  TransportFailures(ErrDict)
    \cup {Http(200, [message |-> CheckMessage(s, id)]), HttpNotJson(500, ErrDict)}

\* An endpoint behind digest authentication: its normal answers vals with 200,
\* or 401, or another error status, with or without a JSON body.
EndpointAnswers(vals) ==
  TransportFailures(ErrDict)
    \cup {Http(200, v) : v \in vals}
    \cup {Http(401, ErrDict), Http(500, ErrDict), HttpNotJson(500, ErrDict)}

\* GET system/name (no authentication).
SystemNameAnswers ==
  TransportFailures(NoName) \cup {Http(200, n) : n \in Names}
    \cup {HttpNotJson(500, NoName)}

\* GET :8080/?action=snapshot (no authentication): the image bytes.
CameraAnswers ==
  TransportFailures(BadFrame) \cup {Http(200, f) : f \in Frames \cup {BadFrame}}

\* ------------------------------------------------- Printer: credentials
\* While a call waits, the device goes on: by the time a request reaches it
\* the printer may have been reset, or the operator may have approved the id
\* asked about.  (Steps of the device that change no answer of the call are
\* taken after it; they leave the same requests, answers and state.)
Reset(s) == [s EXCEPT !.known = {}, !.approved = {}]
Approve(s, id) == [s EXCEPT !.approved = @ \cup {id}]
DeviceBy(s) == {s} \cup (IF s.known # {} THEN {Reset(s)} ELSE {})
DeviceByCheck(s, id) ==
  DeviceBy(s) \cup (IF id \in s.known \ s.approved THEN {Approve(s, id)} ELSE {})

set_credentials(s, c) == [s EXCEPT !.credentials = c]

post_auth_request(s0) ==
  UNION { {
    LET s1 == Sent(s, Entry(s, "auth/request", NoCred, 0, a,
                            IF a.kind = "http" /\ a.parses /\ DOMAIN a.body = {"id", "key"}
                            THEN a.body ELSE NoCred))
        \* the device's side of a pair it issued
        s2 == IF a.kind = "http" /\ DOMAIN a.body = {"id", "key"}
              THEN [s1 EXCEPT !.issued = @ + 1, !.known = @ \cup {a.body.id}]
              ELSE s1
    IN IF a.kind # "http" THEN Raise(s2, TransportExc(a), ErrDict)
       ELSE IF ~a.parses THEN Raise(s2, "JSONDecodeError", ErrDict)
       ELSE Ok(s2, a.body)
    : a \in AuthRequestAnswers(s) } : s \in DeviceBy(s0) }

\* A variant in which a pairing answer without id and key is passed over and
\* nothing is stored.
acquire_credentials_lenient(s) ==
  { IF r.exc # NoExc THEN Raise(r.s, r.exc, NoValue)
    ELSE IF DOMAIN r.ret # {"id", "key"} THEN Ok(r.s, NoValue)
    ELSE Ok(set_credentials(r.s, [id |-> r.ret.id, key |-> r.ret.key]), NoValue)
    : r \in post_auth_request(s) }

acquire_credentials(s) ==
  { IF r.exc # NoExc THEN Raise(r.s, r.exc, NoValue)
    \* Credentials(**credentials_json) takes exactly the keywords id and key
    ELSE IF DOMAIN r.ret # {"id", "key"} THEN Raise(r.s, "TypeError", NoValue)
    ELSE Ok(set_credentials(r.s, [id |-> r.ret.id, key |-> r.ret.key]), NoValue)
    : r \in post_auth_request(s) }

get_auth_verify(s0) ==
  IF s0.credentials = NoCred
  THEN {Raise(s0, "AttributeError", FALSE)}     \* None has no attribute id
  ELSE UNION { { LET s1 == Sent(s, Entry(s, "auth/verify", s.credentials, 0, a, NoCred))
                 IN IF a.kind # "http" THEN Raise(s1, TransportExc(a), FALSE)
                    ELSE Ok(s1, a.code # 401)
                 : a \in AuthVerifyAnswers(s) } : s \in DeviceBy(s0) }

get_auth_check(s0) ==
  IF s0.credentials = NoCred
  THEN {Raise(s0, "AttributeError", NoValue)}
  ELSE UNION { { LET s1 == Sent(s, Entry(s, "auth/check", NoCred, s.credentials.id, a, NoCred))
                 IN IF a.kind # "http" THEN Raise(s1, TransportExc(a), NoValue)
                    ELSE IF ~a.parses THEN Raise(s1, "JSONDecodeError", NoValue)
                    ELSE Ok(s1, a.body.message)
                 : a \in AuthCheckAnswers(s, s.credentials.id) }
               : s \in DeviceByCheck(s0, s0.credentials.id) }

\* A variant that probes the pair it has just acquired and gives up when the
\* probe fails.
AcquireAndReturn_probed(s) ==
  UNION { IF r.exc # NoExc THEN {Raise(r.s, r.exc, NoCred)}
          ELSE { IF v.exc # NoExc THEN Raise(v.s, v.exc, NoCred)
                 ELSE IF ~v.ret THEN Raise(v.s, "AuthRejected", NoCred)
                 ELSE Ok(v.s, v.s.credentials)
                 : v \in get_auth_verify(r.s) }
          : r \in acquire_credentials(s) }

\* acquire_credentials, then "return self.credentials"
AcquireAndReturn(s) ==
  { IF r.exc # NoExc THEN Raise(r.s, r.exc, NoCred) ELSE Ok(r.s, r.s.credentials)
    : r \in acquire_credentials(s) }

\* A variant that forgets to re-acquire: the rejected pair stays and is returned.
get_credentials_keeps_rejected(s) ==
  IF s.credentials = NoCred
  THEN AcquireAndReturn(s)
  ELSE { IF v.exc # NoExc THEN Raise(v.s, v.exc, NoCred) ELSE Ok(v.s, v.s.credentials)
         : v \in get_auth_verify(s) }

\* A variant that reads the probe's answer the wrong way round.
get_credentials_inverted(s) ==
  IF s.credentials = NoCred
  THEN AcquireAndReturn(s)
  ELSE UNION { IF v.exc # NoExc THEN {Raise(v.s, v.exc, NoCred)}
               ELSE IF v.ret THEN AcquireAndReturn([v.s EXCEPT !.credentials = NoCred])
               ELSE {Ok(v.s, v.s.credentials)}
               : v \in get_auth_verify(s) }

\* A variant that ends with "return self.get_credentials()" after acquiring.
get_credentials_recursive(s) ==
  LET again(s1) ==
        UNION { IF v.exc # NoExc THEN {Raise(v.s, v.exc, NoCred)}
                ELSE IF ~v.ret THEN AcquireAndReturn([v.s EXCEPT !.credentials = NoCred])
                ELSE {Ok(v.s, v.s.credentials)}
                : v \in get_auth_verify(s1) }
  IN UNION { IF r.exc # NoExc THEN {r} ELSE again(r.s)
             : r \in IF s.credentials = NoCred THEN AcquireAndReturn(s)
                     ELSE again(s) }

\* A variant that clears the stored pair whenever the probe does not succeed,
\* a transport failure included.
get_credentials_clears_on_error(s) ==
  IF s.credentials = NoCred
  THEN AcquireAndReturn(s)
  ELSE UNION { IF v.exc # NoExc THEN {Raise([v.s EXCEPT !.credentials = NoCred], v.exc, NoCred)}
               ELSE IF ~v.ret THEN AcquireAndReturn([v.s EXCEPT !.credentials = NoCred])
               ELSE {Ok(v.s, v.s.credentials)}
               : v \in get_auth_verify(s) }

get_credentials(s) ==
  IF s.credentials = NoCred
  THEN AcquireAndReturn(s)
  ELSE UNION { IF v.exc # NoExc THEN {Raise(v.s, v.exc, NoCred)}
               ELSE IF ~v.ret THEN AcquireAndReturn([v.s EXCEPT !.credentials = NoCred])
               ELSE {Ok(v.s, v.s.credentials)}
               : v \in get_auth_verify(s) }

\* A variant that builds the header from the stored pair without get_credentials.
digest_auth_unchecked(s) ==
  { IF s.credentials = NoCred THEN Raise(s, "AttributeError", NoCred)
    ELSE Ok(s, s.credentials) }

\* HTTPDigestAuth(credentials.id, credentials.key): the pair the request carries
digest_auth(s) ==
  { IF c.exc # NoExc THEN c
    ELSE IF c.ret = NoCred THEN Raise(c.s, "AttributeError", NoCred)
    ELSE Ok(c.s, [id |-> c.ret.id, key |-> c.ret.key])
    : c \in get_credentials(s) }

\* A variant that takes every answer but 'unknown' for an approval.
is_authorized_unless_unknown(s) ==
  UNION { IF c.exc # NoExc THEN {Raise(c.s, c.exc, FALSE)}
          ELSE { IF m.exc # NoExc THEN Raise(m.s, m.exc, FALSE)
                 ELSE Ok(m.s, m.ret # "unknown")
                 : m \in get_auth_check(c.s) }
          : c \in get_credentials(s) }

is_authorized(s) ==
  UNION { IF c.exc # NoExc THEN {Raise(c.s, c.exc, FALSE)}
          ELSE { IF m.exc # NoExc THEN Raise(m.s, m.exc, FALSE)
                 ELSE Ok(m.s, m.ret = "authorized")
                 : m \in get_auth_check(c.s) }
          : c \in get_credentials(s) }

\* ------------------------------------------ Printer: endpoint requests
\* The endpoints behind digest authentication.
AuthEndpoints ==
  {"printer/status", "print_job", "print_job/state", "print_job/time_elapsed",
   "print_job/time_total", "print_job/progress", "print_job/name",
   "system/display_message", "beep"}

\* A variant that takes a 401 answer as a failed verification and drops the
\* stored pair.
authenticated_json_drops_on_401(s, ep, vals) ==
  UNION { IF d.exc # NoExc THEN {Raise(d.s, d.exc, JNone)}
          ELSE { LET s1 == Sent(d.s, Entry(d.s, ep, d.ret, 0, a, NoCred))
                     s2 == IF a.kind = "http" /\ a.code = 401
                           THEN [s1 EXCEPT !.credentials = NoCred] ELSE s1
                 IN IF a.kind # "http" THEN Raise(s2, TransportExc(a), JNone)
                    ELSE IF ~a.parses THEN Raise(s2, "JSONDecodeError", JNone)
                    ELSE Ok(s2, a.body)
                 : a \in EndpointAnswers(vals) }
          : d \in digest_auth(s) }

\* A variant that calls raise_for_status() on the answer before json().
authenticated_json_raise_for_status(s, ep, vals) ==
  UNION { IF d.exc # NoExc THEN {Raise(d.s, d.exc, JNone)}
          ELSE { LET s1 == Sent(d.s, Entry(d.s, ep, d.ret, 0, a, NoCred))
                 IN IF a.kind # "http" THEN Raise(s1, TransportExc(a), JNone)
                    ELSE IF a.code >= 400 THEN Raise(s1, "HTTPError", JNone)
                    ELSE IF ~a.parses THEN Raise(s1, "JSONDecodeError", JNone)
                    ELSE Ok(s1, a.body)
                 : a \in EndpointAnswers(vals) }
          : d \in digest_auth(s) }

\* requests.get/put(url=..., auth=self.digest_auth(), timeout=...).json():
\* digest_auth() runs first; the status code of the answer is never read.
authenticated_json(s, ep, vals) ==
  UNION { IF d.exc # NoExc THEN {Raise(d.s, d.exc, JNone)}
          ELSE { LET s1 == Sent(d.s, Entry(d.s, ep, d.ret, 0, a, NoCred))
                 IN IF a.kind # "http" THEN Raise(s1, TransportExc(a), JNone)
                    ELSE IF ~a.parses THEN Raise(s1, "JSONDecodeError", JNone)
                    ELSE Ok(s1, a.body)
                 : a \in EndpointAnswers(vals) }
          : d \in digest_auth(s) }

get_printer_status(s) == authenticated_json(s, "printer/status", StatusValues)

get_print_job_state(s) == authenticated_json(s, "print_job/state", {JStr("printing")})

get_print_job_progress(s) == authenticated_json(s, "print_job/progress", {[float |-> "0.5"]})

get_print_job_name(s) == authenticated_json(s, "print_job/name", {JStr("benchy")})

put_system_display_message(s) ==
  authenticated_json(s, "system/display_message", {[message |-> "ok"]})

put_beep(s) == authenticated_json(s, "beep", {[message |-> "ok"]})

get_system_name(s) ==
  { LET s1 == Sent(s, Entry(s, "system/name", NoCred, 0, a, NoCred))
    IN IF a.kind # "http" THEN Raise(s1, TransportExc(a), NoName)
       ELSE IF ~a.parses THEN Raise(s1, "JSONDecodeError", NoName)
       ELSE Ok([s1 EXCEPT !.name = a.body], a.body)
    : a \in SystemNameAnswers }

\* "data:{Content-Type};base64,{b64encode(content)}": base64 is one-to-one, so
\* the reference is determined by, and determines, the frame's bytes.
DataUri(f) == [content_type |-> ContentType, base64 |-> f]

\* A variant that compares the image bytes instead of the perceptual hash.
get_camera_snapshot_uri_compares_bytes(s) ==
  { LET s1 == Sent(s, Entry(s, "camera", NoCred, 0, a, NoCred))
        hash == PHash(a.body)
        s2 == IF s1.camera_snapshot_uri = NoSnapshot
                 \/ DataUri(a.body) # s1.camera_snapshot_uri.uri
              THEN [s1 EXCEPT !.camera_snapshot_uri = [uri |-> DataUri(a.body), hash |-> hash]]
              ELSE s1
    IN IF a.kind # "http" THEN Raise(s1, TransportExc(a), NoSnapshot.uri)
       ELSE IF a.body = BadFrame THEN Raise(s1, "UnidentifiedImageError", NoSnapshot.uri)
       ELSE Ok(s2, s2.camera_snapshot_uri.uri)
    : a \in CameraAnswers }

\* A variant that drops the cached snapshot when a fetch fails.
get_camera_snapshot_uri_invalidates(s) ==
  { LET s1 == Sent(s, Entry(s, "camera", NoCred, 0, a, NoCred))
        hash == PHash(a.body)
        s2 == IF s1.camera_snapshot_uri = NoSnapshot \/ hash # s1.camera_snapshot_uri.hash
              THEN [s1 EXCEPT !.camera_snapshot_uri = [uri |-> DataUri(a.body), hash |-> hash]]
              ELSE s1
        s3 == [s1 EXCEPT !.camera_snapshot_uri = NoSnapshot]
    IN IF a.kind # "http" THEN Raise(s3, TransportExc(a), NoSnapshot.uri)
       ELSE IF a.body = BadFrame THEN Raise(s3, "UnidentifiedImageError", NoSnapshot.uri)
       ELSE Ok(s2, s2.camera_snapshot_uri.uri)
    : a \in CameraAnswers }

get_camera_snapshot_uri(s) ==
  { LET s1 == Sent(s, Entry(s, "camera", NoCred, 0, a, NoCred))
        hash == PHash(a.body)
        s2 == IF s1.camera_snapshot_uri = NoSnapshot \/ hash # s1.camera_snapshot_uri.hash
              THEN [s1 EXCEPT !.camera_snapshot_uri = [uri |-> DataUri(a.body), hash |-> hash]]
              ELSE s1
    IN IF a.kind # "http" THEN Raise(s1, TransportExc(a), NoSnapshot.uri)
       \* Image.open on bytes that are no image
       ELSE IF a.body = BadFrame THEN Raise(s1, "UnidentifiedImageError", NoSnapshot.uri)
       ELSE Ok(s2, s2.camera_snapshot_uri.uri)
    : a \in CameraAnswers }

\* ------------------------------------------------------------- PrintJob
\* The wire record of a print job.  Its fields stand for the three kinds the
\* parser tells apart by name; here the time_* fields and two strings.
JobFields ==
  {"time_elapsed", "time_total", "datetime_started", "datetime_finished",
   "datetime_cleaned", "source", "source_user", "source_application", "name",
   "uuid", "reprint_original_uuid", "state", "progress", "pause_source", "result"}

\* A timestamp on the wire, "YYYY-MM-DDTHH:MM:SS.<fraction>Z", given by its
\* parts; fraction is the sequence of the digits between "." and "Z".
WireStamp(y, mo, d, h, mi, sec, fraction) ==
  [year |-> y, month |-> mo, day |-> d, hour |-> h, minute |-> mi, second |-> sec,
   fraction |-> fraction]

\* A UUID on the wire: the 128-bit number and the way it is written
\* ("canonical": 8-4-4-4-12 lower-case hex; "urn": after "urn:uuid:";
\* "braces": in curly braces; "words": not a UUID at all).
WireUuid(n, form) == [int |-> n, form |-> form]

\* A JSON number with at most one decimal: 0.5 is (5, "real"), 1 is (10, "int").
WireNumber(tenths, json) == [tenths |-> tenths, json |-> json]

WireJob(elapsed, total, started, uuid, progress, state) ==
  [time_elapsed |-> elapsed, time_total |-> total,
   datetime_started |-> started,
   datetime_finished |-> WireStamp(2018, 10, 10, 0, 46, 40, <<0>>),
   datetime_cleaned |-> WireStamp(2018, 10, 11, 9, 5, 7, <<1, 2, 3, 4, 5, 6>>),
   source |-> "WEB_API", source_user |-> "user", source_application |-> "Cura",
   name |-> IF state = "printing" THEN "benchy" ELSE "cube",
   uuid |-> uuid, reprint_original_uuid |-> WireUuid(7, "canonical"),
   state |-> state, progress |-> progress, pause_source |-> "", result |-> ""]

DocStamp == WireStamp(2018, 10, 10, 0, 46, 40, <<7, 7, 6>>)

\* the answers of GET print_job
JobRecords ==
  { WireJob(125, 600, DocStamp, WireUuid(42, "canonical"), WireNumber(5, "real"), "printing"),
    WireJob(0, 90061, DocStamp, WireUuid(42, "urn"), WireNumber(0, "int"), "pre_print") }

\* A variant that reads the number as minutes.
Timedelta_of_minutes(n) == [days |-> (60 * n) \div 86400, seconds |-> (60 * n) % 86400]

\* datetime.timedelta(seconds=n), n >= 0, normalised to days and seconds
Timedelta(n) == [days |-> n \div 86400, seconds |-> n % 86400]

Two(n) == IF n < 10 THEN "0" \o ToString(n) ELSE ToString(n)
\* str(timedelta): "H:MM:SS", after "D day(s), " when days is not 0
TimedeltaStr(td) ==
  LET hms == ToString(td.seconds \div 3600) \o ":" \o Two((td.seconds % 3600) \div 60)
               \o ":" \o Two(td.seconds % 60)
  IN IF td.days = 0 THEN hms
     ELSE IF td.days = 1 THEN "1 day, " \o hms
     ELSE ToString(td.days) \o " days, " \o hms

RECURSIVE DigitsValue(_)
DigitsValue(ds) == IF ds = <<>> THEN 0 ELSE 10 * DigitsValue(SubSeq(ds, 1, Len(ds) - 1)) + ds[Len(ds)]

RECURSIVE Pow10(_)
Pow10(k) == IF k = 0 THEN 1 ELSE 10 * Pow10(k - 1)

\* strptime(..., ULTIMAKER_DATETIME_FORMAT): %f takes one to six digits and
\* pads them on the right to microseconds
StrptimeFails(w) == Len(w.fraction) \notin 1..6
Strptime(w) ==
  [year |-> w.year, month |-> w.month, day |-> w.day, hour |-> w.hour,
   minute |-> w.minute, second |-> w.second,
   microsecond |-> DigitsValue(w.fraction) * Pow10(6 - Len(w.fraction))]

RECURSIVE Padded(_, _)
Padded(n, width) == IF width = 1 THEN ToString(n % 10)
                    ELSE Padded(n \div 10, width - 1) \o ToString(n % 10)

\* str(datetime): "YYYY-MM-DD HH:MM:SS", then ".ffffff" unless microsecond is 0
DatetimeStr(dt) ==
  LET base == Padded(dt.year, 4) \o "-" \o Two(dt.month) \o "-" \o Two(dt.day) \o " "
                \o Two(dt.hour) \o ":" \o Two(dt.minute) \o ":" \o Two(dt.second)
  IN IF dt.microsecond = 0 THEN base ELSE base \o "." \o Padded(dt.microsecond, 6)

\* UUID(value): the number, whichever accepted way it was written
UuidFails(w) == w.form \notin {"canonical", "urn", "braces"}
Uuid(w) == [int |-> w.int]
\* str(UUID): the canonical form (numbers below 100 here, in decimal digits)
UuidStr(u) == "00000000-0000-0000-0000-0000000000" \o Two(u.int)

\* float(value) and str(float)
Float(w) == [tenths |-> w.tenths]
FloatStr(x) == ToString(x.tenths \div 10) \o "." \o ToString(x.tenths % 10)

DatetimeFields == {"datetime_started", "datetime_finished", "datetime_cleaned"}
UuidFields == {"uuid", "reprint_original_uuid"}

\* field.startswith('time') and field.startswith('datetime'), over the field
\* names a record can have here
TimeNames == {"time_elapsed", "time_total", "time_remaining"}
DatetimeNames == DatetimeFields \cup {"datetime_paused"}

\* The fields of PrintJob in the order of their declaration, which is the
\* order the device writes them in.
DeclaredOrder ==
  <<"time_elapsed", "time_total", "datetime_started", "datetime_finished",
    "datetime_cleaned", "source", "source_user", "source_application", "name",
    "uuid", "reprint_original_uuid", "state", "progress", "pause_source", "result">>

\* The exception the conversion of one field raises in the loop of
\* PrintJob.parse, NoExc when it raises none.
FieldExc(field, v) ==
  IF field \in TimeNames THEN NoExc                   \* timedelta(seconds=number)
  ELSE IF field \in DatetimeNames
  THEN IF StrptimeFails(v) THEN "ValueError" ELSE NoExc
  ELSE IF field \notin JobFields THEN "KeyError"      \* cls.__annotations__[field]
  ELSE IF field \in UuidFields /\ UuidFails(v) THEN "ValueError"
  ELSE NoExc

\* The exception PrintJob.parse(dct) raises, NoExc when it returns: that of
\* the first item, in the order of dct.items(), whose conversion fails; when
\* none fails, PrintJob(**print_job_dict) takes exactly the declared fields.
RECURSIVE PrintJobParseExc(_, _)
PrintJobParseExc(dct, items) ==
  IF items = <<>>
  THEN IF DOMAIN dct # JobFields THEN "TypeError" ELSE NoExc
  ELSE IF FieldExc(Head(items), dct[Head(items)]) # NoExc
  THEN FieldExc(Head(items), dct[Head(items)])
  ELSE PrintJobParseExc(dct, Tail(items))

\* PrintJob.parse(dct) when it returns
PrintJobParse(dct) ==
  [time_elapsed |-> Timedelta(dct.time_elapsed), time_total |-> Timedelta(dct.time_total),
   datetime_started |-> Strptime(dct.datetime_started),
   datetime_finished |-> Strptime(dct.datetime_finished),
   datetime_cleaned |-> Strptime(dct.datetime_cleaned),
   source |-> dct.source, source_user |-> dct.source_user,
   source_application |-> dct.source_application, name |-> dct.name,
   uuid |-> Uuid(dct.uuid), reprint_original_uuid |-> Uuid(dct.reprint_original_uuid),
   state |-> dct.state, progress |-> Float(dct.progress),
   pause_source |-> dct.pause_source, result |-> dct.result]

as_str_dict(job) ==
  [time_elapsed |-> TimedeltaStr(job.time_elapsed),
   time_total |-> TimedeltaStr(job.time_total),
   datetime_started |-> DatetimeStr(job.datetime_started),
   datetime_finished |-> DatetimeStr(job.datetime_finished),
   datetime_cleaned |-> DatetimeStr(job.datetime_cleaned),
   source |-> job.source, source_user |-> job.source_user,
   source_application |-> job.source_application, name |-> job.name,
   uuid |-> UuidStr(job.uuid), reprint_original_uuid |-> UuidStr(job.reprint_original_uuid),
   state |-> job.state, progress |-> FloatStr(job.progress),
   pause_source |-> job.pause_source, result |-> job.result]

NoJob == PrintJobParse(WireJob(0, 0, WireStamp(1, 1, 1, 0, 0, 0, <<0>>),
                               WireUuid(0, "canonical"), WireNumber(0, "int"), ""))

\* The items of an answer of GET print_job in the order the device wrote
\* them: a print-job record, or an error object.
ItemsOf(body) == IF DOMAIN body = DOMAIN ErrDict THEN <<"message">> ELSE DeclaredOrder

get_print_job(s) ==
  { IF r.exc # NoExc THEN Raise(r.s, r.exc, NoJob)
    ELSE IF PrintJobParseExc(r.ret, ItemsOf(r.ret)) # NoExc
    THEN Raise(r.s, PrintJobParseExc(r.ret, ItemsOf(r.ret)), NoJob)
    ELSE Ok(r.s, PrintJobParse(r.ret))
    : r \in authenticated_json(s, "print_job", JobRecords) }

\* datetime.timedelta(seconds=...json()): a TypeError unless the JSON is a number
TimedeltaOfJson(r) ==
  IF r.exc # NoExc THEN Raise(r.s, r.exc, Timedelta(0))
  ELSE IF "num" \notin DOMAIN r.ret THEN Raise(r.s, "TypeError", Timedelta(0))
  ELSE Ok(r.s, Timedelta(r.ret.num))

get_print_job_time_elapsed(s) ==
  { TimedeltaOfJson(r) : r \in authenticated_json(s, "print_job/time_elapsed", {JNum(125)}) }

get_print_job_time_total(s) ==
  { TimedeltaOfJson(r) : r \in authenticated_json(s, "print_job/time_total", {JNum(600)}) }

\* ------------------------------------------------------- status snapshot
NoJson == JNone

\* A variant whose first except clause catches every RequestException.
Handled_any_request_exception(r) ==
  IF r.exc \in {"Timeout", "ConnectionError", "JSONDecodeError"}
  THEN Ok(r.s, [system |-> [name |-> r.s.name]])
  ELSE Raise(r.s, r.exc, NoJson)

\* the except clauses of into_ultimaker_json
Handled(r) ==
  IF r.exc = "Timeout" THEN Ok(r.s, [system |-> [name |-> r.s.name]])
  ELSE Raise(r.s, r.exc, NoJson)

\* A variant that fetches the print job whatever the status is.
into_ultimaker_json_always_job(s) ==
  UNION { IF st.exc # NoExc THEN {Handled(st)} ELSE
    UNION { IF nm.exc # NoExc THEN {Handled(nm)} ELSE
      UNION { IF cam.exc # NoExc THEN {Handled(cam)} ELSE
        { IF pj.exc # NoExc THEN Handled(pj)
          ELSE Ok(pj.s, [system |-> [name |-> nm.ret],
                         printer |-> [status |-> st.ret],
                         camera |-> [snapshot |-> cam.ret],
                         print_job |-> as_str_dict(pj.ret)])
          : pj \in get_print_job(cam.s) }
        : cam \in get_camera_snapshot_uri(nm.s) }
      : nm \in get_system_name(st.s) }
    : st \in get_printer_status(s) }

into_ultimaker_json(s) ==
  UNION { IF st.exc # NoExc THEN {Handled(st)} ELSE
    UNION { IF nm.exc # NoExc THEN {Handled(nm)} ELSE
      UNION { IF cam.exc # NoExc THEN {Handled(cam)} ELSE
        IF st.ret = JStr("printing")
        THEN { IF pj.exc # NoExc THEN Handled(pj)
               ELSE Ok(pj.s, [system |-> [name |-> nm.ret],
                              printer |-> [status |-> st.ret],
                              camera |-> [snapshot |-> cam.ret],
                              print_job |-> as_str_dict(pj.ret)])
               : pj \in get_print_job(cam.s) }
        ELSE { Ok(cam.s, [system |-> [name |-> nm.ret],
                          printer |-> [status |-> st.ret],
                          camera |-> [snapshot |-> cam.ret]]) }
        : cam \in get_camera_snapshot_uri(nm.s) }
      : nm \in get_system_name(st.s) }
    : st \in get_printer_status(s) }

\* ------------------------------------------------ callers (threads)
Callers == {1, 2}

\* A caller: pc is where it is in its call of an authenticated endpoint
\* method ("idle": in none); probe is the pair its auth/verify request
\* carries, rejected the pair its probe was answered 401 for, fresh the pair auth/request answered it with, auth the pair
\* digest_auth got from get_credentials; exc is the exception that ended its
\* last call and step the place where it was raised.
Idle == [pc |-> "idle", probe |-> NoCred, rejected |-> NoCred, fresh |-> NoCred,
         auth |-> NoCred, exc |-> NoExc, step |-> "idle"]

\* ------------------------------------------------------------- actions
Init ==
  /\ credentials \in {NoCred, Cred(1)}        \* Printer(..., credentials=None)
  /\ name = NoName
  /\ camera_snapshot_uri = NoSnapshot
  /\ issued = IF credentials = NoCred THEN 0 ELSE 1
  /\ known \in SUBSET (1..issued)
  /\ approved \in SUBSET known
  /\ op = "none" /\ pre = credentials /\ outcome = "none"
  /\ exc = NoExc /\ value = NoValue /\ log = <<>>
  /\ rejected = {}
  /\ print_job_dict = JNone /\ field_order = <<>> /\ print_job = JNone
  \* calls are taken whole here: no caller is followed step by step
  /\ callers = <<>> /\ exclusive = TRUE /\ holder = 0
  /\ hazards = {}

\* the ids that an auth/verify request of the call with log l was answered 401 for
Rejected401(l) ==
  {l[i].auth.id : i \in {j \in DOMAIN l : l[j].ep = "auth/verify" /\ l[j].code = 401}}

\* the ids that get_credentials dropped in the call of `method` with log l
\* (a direct call of get_auth_verify only reports the answer)
Dropped(method, l) == IF method = "get_auth_verify" THEN {} ELSE Rejected401(l)

\* no call is under way, and the caller holds no result of one
Free == outcome = "none"

\* The caller has taken the result, or the exception, of its call and is
\* free to make the next one.
CallOver ==
  /\ outcome \in {"returned", "raised"}
  /\ op' = "none" /\ outcome' = "none"
  /\ pre' = credentials
  /\ exc' = NoExc /\ value' = NoValue /\ log' = <<>>
  /\ rejected' = rejected \cup Dropped(op, log)
  /\ UNCHANGED <<credentials, name, camera_snapshot_uri, issued, known, approved,
                 jobvars, concvars>>

\* One call of a public method, from the call to its return: r is one of
\* its outcomes.
Commit(method, r) ==
  /\ Free
  /\ credentials' = r.s.credentials
  /\ name' = r.s.name
  /\ camera_snapshot_uri' = r.s.camera_snapshot_uri
  /\ issued' = r.s.issued
  /\ known' = r.s.known
  /\ approved' = r.s.approved
  /\ op' = method
  /\ pre' = credentials
  /\ outcome' = IF r.exc = NoExc THEN "returned" ELSE "raised"
  /\ exc' = r.exc
  /\ value' = IF r.exc = NoExc THEN r.ret ELSE NoValue
  /\ log' = r.s.log
  /\ UNCHANGED <<rejected, jobvars, concvars>>

\* What a caller can pass to set_credentials: None, or a pair the device has
\* issued by then.
PairsAbout == {NoCred} \cup {Cred(n) : n \in 1..issued}

SetCredentials ==
  Free /\ \E c \in PairsAbout :
            Commit("set_credentials", Ok(set_credentials(Self, c), NoValue))
AcquireCredentials ==
  Free /\ \E r \in acquire_credentials(Self) : Commit("acquire_credentials", r)
PostAuthRequest ==
  Free /\ \E r \in post_auth_request(Self) : Commit("post_auth_request", r)
GetAuthCheck ==
  Free /\ \E r \in get_auth_check(Self) : Commit("get_auth_check", r)
GetAuthVerify ==
  Free /\ \E r \in get_auth_verify(Self) : Commit("get_auth_verify", r)
DigestAuth ==
  Free /\ \E r \in digest_auth(Self) : Commit("digest_auth", r)
GetCredentials ==
  Free /\ \E r \in get_credentials(Self) : Commit("get_credentials", r)
IsAuthorized ==
  Free /\ \E r \in is_authorized(Self) : Commit("is_authorized", r)
GetPrinterStatus ==
  Free /\ \E r \in get_printer_status(Self) : Commit("get_printer_status", r)
GetPrintJob ==
  Free /\ \E r \in get_print_job(Self) : Commit("get_print_job", r)
GetPrintJobState ==
  Free /\ \E r \in get_print_job_state(Self) : Commit("get_print_job_state", r)
GetPrintJobTimeElapsed ==
  Free /\ \E r \in get_print_job_time_elapsed(Self) : Commit("get_print_job_time_elapsed", r)
GetPrintJobTimeTotal ==
  Free /\ \E r \in get_print_job_time_total(Self) : Commit("get_print_job_time_total", r)
GetPrintJobProgress ==
  Free /\ \E r \in get_print_job_progress(Self) : Commit("get_print_job_progress", r)
GetPrintJobName ==
  Free /\ \E r \in get_print_job_name(Self) : Commit("get_print_job_name", r)
PutSystemDisplayMessage ==
  Free /\ \E r \in put_system_display_message(Self) : Commit("put_system_display_message", r)
PutBeep ==
  Free /\ \E r \in put_beep(Self) : Commit("put_beep", r)
GetSystemName ==
  Free /\ \E r \in get_system_name(Self) : Commit("get_system_name", r)
GetCameraSnapshotUri ==
  Free /\ \E r \in get_camera_snapshot_uri(Self) : Commit("get_camera_snapshot_uri", r)
IntoUltimakerJson ==
  Free /\ \E r \in into_ultimaker_json(Self) : Commit("into_ultimaker_json", r)

\* The operator approves a pending credential on the printer's screen.
OperatorApproves ==
  /\ \E id \in known \ approved : approved' = approved \cup {id}
  /\ UNCHANGED <<credentials, name, camera_snapshot_uri, issued, known,
                 op, pre, outcome, exc, value, log, rejected, jobvars, concvars>>

\* The printer is reset and forgets every credential.
FactoryReset ==
  /\ known # {}
  /\ known' = {} /\ approved' = {}
  /\ UNCHANGED <<credentials, name, camera_snapshot_uri, issued,
                 op, pre, outcome, exc, value, log, rejected, jobvars, concvars>>

Next ==
  \/ SetCredentials
  \/ AcquireCredentials
  \/ PostAuthRequest
  \/ GetAuthCheck
  \/ GetAuthVerify
  \/ DigestAuth
  \/ GetCredentials
  \/ IsAuthorized
  \/ GetPrinterStatus
  \/ GetPrintJob
  \/ GetPrintJobState
  \/ GetPrintJobTimeElapsed
  \/ GetPrintJobTimeTotal
  \/ GetPrintJobProgress
  \/ GetPrintJobName
  \/ PutSystemDisplayMessage
  \/ PutBeep
  \/ GetSystemName
  \/ GetCameraSnapshotUri
  \/ IntoUltimakerJson
  \/ CallOver
  \/ OperatorApproves
  \/ FactoryReset

Spec == Init /\ [][Next]_vars

\* ------------------------------------- two callers on one Printer
\* Each caller calls authenticated endpoint methods, again and again.  A call
\* is a sequence of steps, and the other caller may take steps in between:
\* the test of get_credentials, the auth/verify request, the assignment of
\* None, the auth/request request, set_credentials, "return self.credentials"
\* with the construction of the digest header, and the endpoint request.
\* When the callers are exclusive a call begins only when no call is under
\* way.

\* What has gone wrong in the callers cs with cred stored.
Hazards(cs, cred) ==
  {"probe of none" : t \in {u \in Callers :
      cs[u].exc = "AttributeError" /\ cs[u].step \in {"verify", "key"}}}
  \cup {"torn probe" : t \in {u \in Callers :
      cs[u].pc = "probe" /\ cs[u].probe.id # cs[u].probe.key}}
  \cup {"none returned" : t \in {u \in Callers :
      cs[u].exc = "AttributeError" /\ cs[u].step = "return"}}
  \cup {"double pairing" : t \in {u \in Callers :
      \E v \in Callers \ {u} :
        /\ cs[u].rejected # NoCred /\ cs[v].rejected = cs[u].rejected
        /\ cs[u].fresh # NoCred /\ cs[v].fresh # NoCred
        /\ cs[u].pc = "send" /\ cs[u].auth = cs[u].fresh
        /\ cred = cs[v].fresh /\ cred # cs[u].auth}}

\* the turn-taking of exclusive callers
MayBegin(t) == exclusive => holder = 0
TurnOf(t, c) == IF exclusive /\ c.pc # "idle" THEN t ELSE 0

\* Caller t goes on as c, with cred stored in the Printer and the device as in s.
Becomes(t, c, cred, s) ==
  /\ callers' = [callers EXCEPT ![t] = c]
  /\ credentials' = cred
  /\ issued' = s.issued /\ known' = s.known /\ approved' = s.approved
  /\ holder' = TurnOf(t, c)
  /\ hazards' = hazards \cup Hazards([callers EXCEPT ![t] = c], cred)
  /\ UNCHANGED <<name, camera_snapshot_uri, op, pre, outcome, exc, value,
                 log, rejected, jobvars, exclusive>>

Raised(c, e) == [c EXCEPT !.pc = "idle", !.exc = e, !.step = c.pc]

\* A variant whose test is never true.
FirstStep_always_verify(cred) == "verify"

\* get_credentials: "if self.credentials is None: ... elif ..."
FirstStep(cred) == IF cred = NoCred THEN "acquire" ELSE "verify"

Begin(t) ==
  /\ callers[t].pc = "idle" /\ MayBegin(t)
  /\ Becomes(t, [Idle EXCEPT !.pc = FirstStep(credentials)], credentials, Self)

\* get_auth_verify: HTTPDigestAuth(self.credentials.id, ...) reads the id
ReadId(t) ==
  /\ callers[t].pc = "verify"
  /\ Becomes(t, IF credentials = NoCred THEN Raised(callers[t], "AttributeError")
                ELSE [callers[t] EXCEPT !.pc = "key", !.probe = [id |-> credentials.id, key |-> 0]],
             credentials, Self)

\* get_auth_verify: HTTPDigestAuth(..., self.credentials.key) reads the key
ReadKey(t) ==
  /\ callers[t].pc = "key"
  /\ Becomes(t, IF credentials = NoCred THEN Raised(callers[t], "AttributeError")
                ELSE [callers[t] EXCEPT !.pc = "probe", !.probe.key = credentials.key],
             credentials, Self)

\* get_auth_verify: the request, carrying the id and the key that were read
Probe(t) ==
  /\ callers[t].pc = "probe"
  /\ \E r \in get_auth_verify([Self EXCEPT !.credentials = callers[t].probe]) :
       Becomes(t, IF r.exc # NoExc THEN Raised(callers[t], r.exc)
                  ELSE IF r.ret THEN [callers[t] EXCEPT !.pc = "return"]
                  ELSE [callers[t] EXCEPT !.pc = "clear", !.rejected = callers[t].probe],
               credentials, r.s)

\* self.credentials = None
Clear(t) ==
  /\ callers[t].pc = "clear"
  /\ Becomes(t, [callers[t] EXCEPT !.pc = "acquire"], NoCred, Self)

\* acquire_credentials: post_auth_request and Credentials(**credentials_json)
Pair(t) ==
  /\ callers[t].pc = "acquire"
  /\ \E r \in post_auth_request(Self) :
       Becomes(t, IF r.exc # NoExc THEN Raised(callers[t], r.exc)
                  ELSE IF DOMAIN r.ret # {"id", "key"} THEN Raised(callers[t], "TypeError")
                  ELSE [callers[t] EXCEPT !.pc = "set",
                                          !.fresh = [id |-> r.ret.id, key |-> r.ret.key]],
               credentials, r.s)

\* acquire_credentials: self.set_credentials(...)
Store(t) ==
  /\ callers[t].pc = "set"
  /\ Becomes(t, [callers[t] EXCEPT !.pc = "return"],
             set_credentials(Self, callers[t].fresh).credentials, Self)

\* "return self.credentials", and digest_auth reading its id and key
Return(t) ==
  /\ callers[t].pc = "return"
  /\ Becomes(t, IF credentials = NoCred THEN Raised(callers[t], "AttributeError")
                ELSE [callers[t] EXCEPT !.pc = "send", !.auth = credentials],
             credentials, Self)

\* the endpoint request, carrying the digest header, and json() of its
\* answer; the call is over
Send(t) ==
  /\ callers[t].pc = "send"
  /\ \E a \in EndpointAnswers(StatusValues) :
       Becomes(t, IF a.kind # "http" THEN Raised(callers[t], TransportExc(a))
                  ELSE IF ~a.parses THEN Raised(callers[t], "JSONDecodeError")
                  ELSE [callers[t] EXCEPT !.pc = "idle"],
               credentials, Self)

InitConcurrent ==
  /\ credentials = Cred(1) /\ issued = 1
  /\ known \in SUBSET {1} /\ approved = {}
  /\ name = NoName /\ camera_snapshot_uri = NoSnapshot
  /\ op = "none" /\ pre = credentials /\ outcome = "none"
  /\ exc = NoExc /\ value = NoValue /\ log = <<>>
  /\ rejected = {}
  /\ print_job_dict = JNone /\ field_order = <<>> /\ print_job = JNone
  /\ callers = [t \in Callers |-> Idle]
  /\ exclusive \in BOOLEAN /\ holder = 0
  /\ hazards = {}

NextConcurrent ==
  \/ \E t \in Callers :
       \/ Begin(t)
       \/ ReadId(t)
       \/ ReadKey(t)
       \/ Probe(t)
       \/ Clear(t)
       \/ Pair(t)
       \/ Store(t)
       \/ Return(t)
       \/ Send(t)
  \/ FactoryReset

SpecConcurrent == InitConcurrent /\ [][NextConcurrent]_vars

\* ------------------------------------------------ a polling caller
\* A caller that keeps calling is_authorized (and get_credentials) while the
\* operator and the device act.  The caller does not stop polling, its
\* requests are not failing for ever, and the operator does not leave a
\* pending credential unapproved for ever.
\* is_authorized comes back with the device's answer
IsAuthorizedAnswered ==
  Free /\ \E r \in is_authorized(Self) : r.exc = NoExc /\ Commit("is_authorized", r)

NextPairing ==
  \/ GetCredentials
  \/ IsAuthorized
  \/ CallOver
  \/ OperatorApproves
  \/ FactoryReset

\* The caller goes on after every call and polls is_authorized again and
\* again, polls are answered again and again, and the operator approves a
\* pending credential in the end.
SpecPairing ==
  /\ Init /\ [][NextPairing]_vars
  /\ WF_vars(CallOver)
  /\ SF_vars(IsAuthorizedAnswered)
  /\ WF_vars(OperatorApproves)

\* ----------------------------------------------- PrintJob on its own
\* The records PrintJob.parse is applied to: every declared field, with
\* durations below and above a day, timestamps with three, one and six digits
\* of fraction and with none, UUIDs written in several ways, progress as a
\* JSON real and as a JSON integer; then a record that lacks a declared field
\* and one with a field PrintJob does not declare.
WireStamps ==
  { DocStamp,
    WireStamp(2018, 10, 10, 0, 46, 40, <<0>>),
    WireStamp(2019, 1, 2, 13, 4, 5, <<0, 0, 0, 0, 0, 7>>),
    WireStamp(2018, 10, 10, 0, 46, 40, <<>>) }
WireUuids == {WireUuid(42, "canonical"), WireUuid(42, "urn"), WireUuid(42, "words")}
WireProgress == {WireNumber(5, "real"), WireNumber(10, "int"), WireNumber(0, "int")}
DocJob == WireJob(125, 600, DocStamp, WireUuid(42, "canonical"), WireNumber(5, "real"), "printing")
WireJobs ==
  { WireJob(e, tt, st, u, pr, state) :
      e \in {0, 125, 86399, 90061}, tt \in {600, 172800}, st \in WireStamps,
      u \in WireUuids, pr \in WireProgress, state \in {"printing", "pre_print"} }

\* A record with one more field, and one without a field.
With(d, field, v) == [f \in DOMAIN d \cup {field} |-> IF f = field THEN v ELSE d[f]]
Without(d, field) == [f \in DOMAIN d \ {field} |-> d[f]]
RECURSIVE SeqWithout(_, _)
SeqWithout(q, x) ==
  IF q = <<>> THEN <<>>
  ELSE IF Head(q) = x THEN SeqWithout(Tail(q), x)
  ELSE <<Head(q)>> \o SeqWithout(Tail(q), x)

BadStamp == WireStamp(2018, 10, 10, 0, 46, 40, <<>>)
BadStartJob == WireJob(125, 600, BadStamp, WireUuid(42, "canonical"), WireNumber(5, "real"), "printing")

\* The records PrintJob.parse is given, each with the order of its items:
\* the documented fields in the documented order, and records that lack a
\* field or carry one that PrintJob does not declare.
WireDicts ==
  { <<d, DeclaredOrder>> : d \in WireJobs }
    \cup { <<Without(DocJob, "progress"), SeqWithout(DeclaredOrder, "progress")>>,
           <<With(DocJob, "colour", "red"), DeclaredOrder \o <<"colour">> >>,
           <<With(DocJob, "time_remaining", 475), DeclaredOrder \o <<"time_remaining">> >>,
           <<With(DocJob, "datetime_paused", DocStamp), DeclaredOrder \o <<"datetime_paused">> >>,
           <<With(DocJob, "datetime_paused", BadStamp), DeclaredOrder \o <<"datetime_paused">> >>,
           <<With(BadStartJob, "colour", "red"), DeclaredOrder \o <<"colour">> >>,
           <<With(BadStartJob, "colour", "red"), <<"colour">> \o DeclaredOrder>> }

InitPrintJob ==
  /\ \E w \in WireDicts : print_job_dict = w[1] /\ field_order = w[2]
  /\ print_job = JNone
  /\ credentials = NoCred /\ name = NoName /\ camera_snapshot_uri = NoSnapshot
  /\ issued = 0 /\ known = {} /\ approved = {} /\ rejected = {}
  /\ op = "none" /\ pre = NoCred /\ outcome = "none"
  /\ exc = NoExc /\ value = NoValue /\ log = <<>>
  /\ callers = <<>> /\ exclusive = TRUE /\ holder = 0
  /\ hazards = {}

\* print_job = PrintJob.parse(print_job_dict)
Parse ==
  /\ op = "none"
  /\ op' = "PrintJob.parse"
  /\ exc' = PrintJobParseExc(print_job_dict, field_order)
  /\ outcome' = IF exc' = NoExc THEN "returned" ELSE "raised"
  /\ print_job' = IF exc' = NoExc THEN PrintJobParse(print_job_dict) ELSE JNone
  /\ UNCHANGED <<credentials, name, camera_snapshot_uri, issued, known, approved,
                 pre, value, log, rejected, print_job_dict, field_order, concvars>>

\* print_job.as_str_dict()
AsStrDict ==
  /\ op = "PrintJob.parse" /\ outcome = "returned"
  /\ op' = "PrintJob.as_str_dict"
  /\ value' = as_str_dict(print_job)
  /\ UNCHANGED <<credentials, name, camera_snapshot_uri, issued, known, approved,
                 pre, outcome, exc, log, rejected, jobvars, concvars>>

NextPrintJob ==
  \/ Parse
  \/ AsStrDict

SpecPrintJob == InitPrintJob /\ [][NextPrintJob]_vars

\* ===================================================================
\* Reading the log of the last call
\* ===================================================================
Verify401(e) == e.ep = "auth/verify" /\ e.kind = "http" /\ e.code = 401
VerifyPassed(e) == e.ep = "auth/verify" /\ e.kind = "http" /\ e.code # 401
Issued(e) == e.ep = "auth/request" /\ e.issued # NoCred
\* Printer.credentials once the answer to request i has been handled
StoredAfter(i) == IF i < Len(log) THEN log[i + 1].stored ELSE credentials
Requests(ep) == {i \in DOMAIN log : log[i].ep = ep}
Returned(method) == op = method /\ outcome = "returned"

\* ===================================================================
\* C1  get_credentials never returns a credential that an auth/verify probe
\*     of the same call answered 401 for: when the probe fails for the stored
\*     credential c, the returned value differs from c.
\* ===================================================================
C1_NeverReturnsRejected ==
  Returned("get_credentials") =>
    \A i \in DOMAIN log : Verify401(log[i]) => value # log[i].auth

C1_Witness ==
  /\ Returned("get_credentials")
  /\ \E i \in DOMAIN log : Verify401(log[i]) /\ log[i].auth = pre /\ pre # NoCred

\* ===================================================================
\* C2  Every request to an authenticated endpoint carries a credential for
\*     which an auth/verify probe has already succeeded, a freshly issued one
\*     included.  (The statement as claimed.)
\* ===================================================================
C2_VerifiedBeforeUse ==
  \A i \in DOMAIN log :
    log[i].ep \in AuthEndpoints =>
      \E j \in 1..(i - 1) : VerifyPassed(log[j]) /\ log[j].auth = log[i].auth

\* C2 as amended: every request to an authenticated endpoint carries the stored
\* credential, and the request right before it in the same call is either an
\* auth/verify probe of that credential answered non-401 or the auth/request
\* that issued it (a freshly issued credential is used without a probe).
C2_VerifiedOrFresh ==
  \A i \in DOMAIN log :
    log[i].ep \in AuthEndpoints =>
      /\ i > 1
      /\ log[i].auth # NoCred
      /\ log[i].auth = log[i].stored
      /\ \/ VerifyPassed(log[i - 1]) /\ log[i - 1].auth = log[i].auth
         \/ Issued(log[i - 1]) /\ log[i - 1].issued = log[i].auth

C2_Witness ==
  \E i \in DOMAIN log :
    /\ log[i].ep \in AuthEndpoints /\ i > 1
    /\ Issued(log[i - 1]) /\ log[i - 1].issued = log[i].auth
    /\ log[i].kind = "http"

\* ===================================================================
\* C3  Starting with no stored credential, while the device reports the newly
\*     issued credential as 'unauthorized' the first get_credentials call
\*     fails with PairingRequired instead of returning a credential.
\*     (The statement as claimed.)
\* ===================================================================
C3_PairingRequired ==
  ( /\ op = "get_credentials" /\ pre = NoCred
    /\ \E i \in DOMAIN log :
         Issued(log[i]) /\ CheckMessage(Self, log[i].issued.id) = "unauthorized" )
  => (outcome = "raised" /\ exc = "PairingRequired")

\* C3 as amended: starting with no stored credential, get_credentials sends one
\* auth/request and returns and stores the newly issued pair, also while the
\* device reports it as 'unauthorized' (approval is only read by
\* is_authorized); a get_credentials call that starts with a stored pair the
\* device still recognises returns that same (id, key) pair, approved or not,
\* and sends no auth/request.
C3_PairingFlow ==
  op = "get_credentials" =>
    /\ exc # "PairingRequired"
    /\ (pre = NoCred /\ outcome = "returned") =>
         /\ Len(log) = 1 /\ Issued(log[1])
         /\ value = log[1].issued /\ credentials = value
    /\ (pre # NoCred /\ log # <<>> /\ VerifyPassed(log[1])) =>
         /\ outcome = "returned" /\ value = pre /\ credentials = pre
         /\ Len(log) = 1

C3_Witness ==
  /\ Returned("get_credentials") /\ pre = NoCred
  /\ Len(log) = 1 /\ Issued(log[1]) /\ value = log[1].issued
  /\ CheckMessage(Self, value.id) = "unauthorized"

\* ===================================================================
\* C4  When the stored credential fails verification and the credential
\*     re-acquired in the same get_credentials call fails verification too,
\*     the call fails with AuthRejected and does not return the re-acquired
\*     credential.  (The statement as claimed.)
\* ===================================================================
C4_AuthRejected ==
  ( /\ op = "get_credentials" /\ Len(log) = 2
    /\ Verify401(log[1]) /\ Issued(log[2])
    /\ log[2].issued.id \notin known )       \* the device answers 401 for it too
  => (outcome = "raised" /\ exc = "AuthRejected")

\* C4 as amended: when the stored credential fails verification, get_credentials
\* sends exactly one auth/request and no second auth/verify probe; if the
\* request yields a pair the call returns and stores it unverified, whatever
\* the device then answers for it, and otherwise it raises the request's error
\* with no credential stored; it never raises AuthRejected.
C4_OneReacquireUnverified ==
  (op = "get_credentials" /\ log # <<>> /\ Verify401(log[1])) =>
    /\ Len(log) = 2 /\ log[2].ep = "auth/request"
    /\ exc # "AuthRejected"
    /\ Issued(log[2]) => (outcome = "returned" /\ value = log[2].issued /\ credentials = value)
    /\ ~Issued(log[2]) => (outcome = "raised" /\ credentials = NoCred)

C4_Witness ==
  /\ Returned("get_credentials") /\ Len(log) = 2
  /\ Verify401(log[1]) /\ Issued(log[2]) /\ value = log[2].issued
  /\ value.id \notin known

\* ===================================================================
\* C5  When an authenticated endpoint request is answered 401, the client
\*     drops the stored credential, sends one auth/request and re-issues the
\*     same endpoint request with the new credential.  (The statement as
\*     claimed.)
\* ===================================================================
C5_RetryAfter401 ==
  \A i \in DOMAIN log :
    (log[i].ep \in AuthEndpoints /\ log[i].kind = "http" /\ log[i].code = 401) =>
      \E j \in DOMAIN log, k \in DOMAIN log :
        /\ i < j /\ j < k
        /\ log[j].ep = "auth/request"
        /\ log[k].ep = log[i].ep

\* C5 as amended: a 401 answer to an authenticated endpoint request is handled
\* like any other answer: the stored credential stays as it was, no
\* auth/request follows, the endpoint is not requested again in that call and
\* no AuthRejected is raised; the methods that hand on json() as it is (such as
\* get_printer_status and put_beep) return the 401 answer's JSON body.
PassThroughMethods ==
  {"get_printer_status", "get_print_job_state", "get_print_job_progress",
   "get_print_job_name", "put_system_display_message", "put_beep"}

C5_No401Handling ==
  \A i \in DOMAIN log :
    (log[i].ep \in AuthEndpoints /\ log[i].kind = "http" /\ log[i].code = 401) =>
      /\ StoredAfter(i) = log[i].stored
      /\ credentials = log[i].stored
      /\ \A j \in DOMAIN log : j > i => log[j].ep \notin {"auth/request", log[i].ep}
      /\ exc # "AuthRejected"
      /\ op \in PassThroughMethods =>
           (i = Len(log) /\ outcome = "returned" /\ value = ErrDict)

C5_Witness ==
  /\ Returned("get_printer_status") /\ log # <<>>
  /\ log[Len(log)].ep = "printer/status" /\ log[Len(log)].code = 401
  /\ value = ErrDict /\ credentials # NoCred

\* ===================================================================
\* C6  Re-acquisition is bounded: whatever the device answers, one
\*     get_credentials call sends at most one auth/verify probe and at most
\*     one auth/request, and then returns or raises.  Each public method but
\*     into_ultimaker_json runs get_credentials at most once, and
\*     into_ultimaker_json at most twice.
\* ===================================================================
CredentialRounds == IF op = "into_ultimaker_json" THEN 2 ELSE 1

C6_BoundedReacquisition ==
  \* a call that begins here has an outcome, and each of its outcomes
  /\ Free =>
       /\ get_credentials(Self) # {}
       /\ \A r \in get_credentials(Self) :
            /\ Cardinality({i \in DOMAIN r.s.log : r.s.log[i].ep = "auth/verify"}) <= 1
            /\ Cardinality({i \in DOMAIN r.s.log : r.s.log[i].ep = "auth/request"}) <= 1
            /\ Len(r.s.log) <= 2
  /\ op # "none" =>
       /\ outcome \in {"returned", "raised"}
       /\ Cardinality(Requests("auth/verify")) <= CredentialRounds
       /\ Cardinality(Requests("auth/request")) <= CredentialRounds
  /\ op = "get_credentials" => Len(log) <= 2

C6_Witness ==
  /\ op = "get_credentials" /\ Len(log) = 2
  /\ log[1].ep = "auth/verify" /\ log[2].ep = "auth/request"

\* ===================================================================
\* C7  The stored credential changes only to none, after auth/verify answered
\*     401 for it, or to the pair a successful auth/request returned; a
\*     request that timed out or failed to connect leaves it as it was.
\*     (The statement as claimed.)
\* ===================================================================
C7_CredentialCommits ==
  /\ log = <<>> => credentials = pre
  /\ log # <<>> => log[1].stored = pre
  /\ \A i \in DOMAIN log :
       /\ log[i].kind # "http" => StoredAfter(i) = log[i].stored
       /\ StoredAfter(i) # log[i].stored =>
            \/ Verify401(log[i]) /\ log[i].auth = log[i].stored /\ StoredAfter(i) = NoCred
            \/ Issued(log[i]) /\ log[i].kind = "http" /\ StoredAfter(i) = log[i].issued

\* C7 as amended: the stored credential changes only to none, after
\* auth/verify answered 401 for it inside get_credentials, or to the pair a
\* successful auth/request returned, or to whatever a caller passes to
\* set_credentials, which sends no request; a request that timed out or
\* failed to connect leaves it as it was.
C7_CommitsOrSetCredentials ==
  /\ op = "set_credentials" => log = <<>>
  /\ op # "set_credentials" => C7_CredentialCommits

C7_Witness ==
  /\ log # <<>> /\ pre # NoCred
  /\ log[Len(log)].ep = "auth/verify" /\ log[Len(log)].kind = "timeout"
  /\ credentials = pre /\ outcome = "raised"

\* ===================================================================
\* C8  If any request made during into_ultimaker_json fails by a timeout or
\*     by a connection failure, the call returns normally a result holding
\*     only system.name.  (The statement as claimed.)
\* ===================================================================
C8_DegradedOnUnreachable ==
  (op = "into_ultimaker_json" /\ \E i \in DOMAIN log : log[i].kind \in {"timeout", "connerr"})
  => (outcome = "returned" /\ DOMAIN value = {"system"})

\* C8 as amended: a request of into_ultimaker_json that fails is the call's
\* last request.  If it fails by a timeout, at whichever step, the call
\* returns normally a result holding only system.name, whose value is the
\* name of the most recent successful system/name fetch (none if there was
\* never one); if it fails by a connection failure that is no timeout, the
\* call raises that error.
C8_Post ==
  LET n == Len(log')
      fetched == {i \in DOMAIN log' : log'[i].ep = "system/name" /\ log'[i].msg # ""}
      last_name == IF fetched = {} THEN name
                   ELSE JStr(log'[CHOOSE i \in fetched : \A j \in fetched : j <= i].msg)
  IN /\ n >= 1
     /\ \A i \in DOMAIN log' : log'[i].kind # "http" => i = n
     /\ log'[n].kind = "timeout" =>
          /\ outcome' = "returned"
          /\ value' = [system |-> [name |-> last_name]]
          /\ name' = last_name
     /\ log'[n].kind = "connerr" =>
          /\ outcome' = "raised" /\ exc' = "ConnectionError"

\* a step that is a call of into_ultimaker_json
IntoUltimakerJsonStep == Free /\ op' = "into_ultimaker_json"

C8_DegradedOnTimeout == [][IntoUltimakerJsonStep => C8_Post]_vars

C8_Witness ==
  /\ Returned("into_ultimaker_json") /\ log # <<>>
  /\ log[Len(log)].ep = "camera" /\ log[Len(log)].kind = "timeout"
  /\ DOMAIN value = {"system"} /\ value.system.name \in Names

\* ===================================================================
\* C9  is_authorized sends one auth/check poll, for the id of the credential
\*     stored at that moment, and returns true iff the answer is
\*     'authorized'; when it returns false and auth/verify did not answer
\*     401, the stored credential is the one from before the call and no
\*     auth/request was sent.
\* ===================================================================
C9_ApprovalCheck ==
  op = "is_authorized" =>
    LET polls == Requests("auth/check") IN
    /\ Cardinality(polls) <= 1
    /\ \A i \in polls :
         /\ i = Len(log)
         /\ log[i].stored # NoCred /\ log[i].arg = log[i].stored.id
         /\ credentials = log[i].stored
    \* the poll is sent whenever get_credentials has handed over a credential
    /\ (polls = {} /\ log # <<>>) =>
         /\ outcome = "raised"
         /\ log[Len(log)].kind # "http" \/ (log[Len(log)].ep = "auth/request" /\ ~Issued(log[Len(log)]))
    /\ outcome = "returned" =>
         /\ Cardinality(polls) = 1
         /\ log[Len(log)].kind = "http"
         /\ value = (log[Len(log)].msg = "authorized")
    /\ (outcome = "returned" /\ ~value /\ VerifyPassed(log[1])) =>
         /\ credentials = pre
         /\ Requests("auth/request") = {}

C9_Witness ==
  /\ Returned("is_authorized") /\ ~value
  /\ Len(log) = 2 /\ VerifyPassed(log[1])
  /\ log[2].ep = "auth/check" /\ log[2].msg = "unauthorized" /\ log[2].arg = pre.id
  /\ credentials = pre

\* ===================================================================
\* C10 A normal result of into_ultimaker_json holds system name, printer
\*     status and camera snapshot reference, and holds a print_job entry iff
\*     the printer/status answer of that call is 'printing'; the print_job
\*     endpoint is requested only in that case.
\* ===================================================================
C10_PrintJobIffPrinting ==
  op = "into_ultimaker_json" =>
    LET status == {log[i].msg : i \in {j \in Requests("printer/status") : log[j].kind = "http"}}
    IN /\ Requests("print_job") # {} => status = {"printing"}
       /\ (outcome = "returned" /\ DOMAIN value # {"system"}) =>
            /\ {"system", "printer", "camera"} \subseteq DOMAIN value
            /\ status = {TextOf(value.printer.status)}
            /\ value.system.name = name
            /\ value.camera.snapshot = camera_snapshot_uri.uri
            /\ "print_job" \in DOMAIN value <=> value.printer.status = JStr("printing")
            /\ Requests("print_job") # {} <=> value.printer.status = JStr("printing")

C10_Witness ==
  /\ Returned("into_ultimaker_json")
  /\ "print_job" \in DOMAIN value /\ value.printer.status = JStr("printing")
  /\ value.print_job.time_elapsed = "0:02:05"

\* ===================================================================
\* C11 Snapshot caching: a successful camera fetch replaces the cached
\*     reference exactly when the cache is empty or the new frame's
\*     perceptual hash differs from the cached hash, and then the new
\*     reference differs from the old one; with an equal hash the cached
\*     reference stays and is returned again; the cached hash is always the
\*     hash of the frame the cached reference was built from.
\* ===================================================================
\* a step that is a call of get_camera_snapshot_uri or of into_ultimaker_json
CameraCallStep ==
  Free /\ op' \in {"get_camera_snapshot_uri", "into_ultimaker_json"}

\* the requests of the call to the camera that were answered with an image
Fetched(l) == {i \in DOMAIN l : l[i].ep = "camera" /\ l[i].kind = "http" /\ l[i].frame # BadFrame}

C11_Post ==
  \A i \in Fetched(log') :
    LET f == log'[i].frame
        fresh == [uri |-> DataUri(f), hash |-> PHash(f)]
    IN /\ (camera_snapshot_uri = NoSnapshot \/ PHash(f) # camera_snapshot_uri.hash) =>
            /\ camera_snapshot_uri' = fresh
            /\ camera_snapshot_uri'.uri # camera_snapshot_uri.uri
       /\ (camera_snapshot_uri # NoSnapshot /\ PHash(f) = camera_snapshot_uri.hash) =>
            camera_snapshot_uri' = camera_snapshot_uri
       /\ (op' = "get_camera_snapshot_uri") =>
            (outcome' = "returned" /\ value' = camera_snapshot_uri'.uri)

CachedHashIsOfCachedFrame ==
  camera_snapshot_uri # NoSnapshot =>
    /\ camera_snapshot_uri.uri.base64 \in Frames
    /\ camera_snapshot_uri.hash = PHash(camera_snapshot_uri.uri.base64)
    /\ camera_snapshot_uri.uri = DataUri(camera_snapshot_uri.uri.base64)

C11_SnapshotCaching ==
  /\ []CachedHashIsOfCachedFrame
  /\ [][CameraCallStep => C11_Post]_vars

\* A frame with other bytes and the cached hash was fetched: the reference
\* returned is the cached one.
C11_Witness ==
  /\ Returned("get_camera_snapshot_uri")
  /\ log[1].frame # camera_snapshot_uri.uri.base64
  /\ PHash(log[1].frame) = camera_snapshot_uri.hash
  /\ value = camera_snapshot_uri.uri

\* ===================================================================
\* C17 A failed camera fetch (timeout, connection failure, bytes that are no
\*     image) leaves the cached reference and hash unchanged, and every
\*     get_camera_snapshot_uri call sends a request to the camera, with or
\*     without a cache entry and whatever the previous fetch did.
\* ===================================================================
C17_Post ==
  /\ Fetched(log') = {} => camera_snapshot_uri' = camera_snapshot_uri
  /\ op' = "get_camera_snapshot_uri" =>
       /\ Len(log') = 1 /\ log'[1].ep = "camera"
       /\ Fetched(log') = {} <=> outcome' = "raised"

C17_FailedFetchKeepsCache ==
  /\ [](Free => \A r \in get_camera_snapshot_uri(Self) :
                    Len(r.s.log) = 1 /\ r.s.log[1].ep = "camera")
  /\ [][CameraCallStep => C17_Post]_vars

C17_Witness ==
  /\ op = "get_camera_snapshot_uri" /\ outcome = "raised"
  /\ exc = "UnidentifiedImageError"
  /\ camera_snapshot_uri # NoSnapshot

\* ===================================================================
\* C12 (as stated) An authenticated endpoint request answered with a status
\*     that is neither 2xx nor 401 makes the call fail with a DeviceError.
\* ===================================================================
ErrorStatus(e) ==
  /\ e.ep \in AuthEndpoints /\ e.kind = "http"
  /\ e.code # 401 /\ (e.code < 200 \/ e.code > 299)

C12_DeviceError ==
  (\E i \in DOMAIN log : ErrorStatus(log[i])) =>
    (outcome = "raised" /\ exc = "DeviceError")

\* C12 as amended: the status of the answer to an authenticated endpoint
\* request is not read.  An answer with a status that is neither 2xx nor 401 is
\* the last request of its call to that endpoint (sent once, no retry), no
\* auth/request follows it and the stored credential stays as it was; no
\* DeviceError is raised: the methods that hand on json() as it is return the
\* answer's JSON body as their result, and raise the JSON decoding error when
\* the body is not JSON.
C12_StatusNotRead ==
  \A i \in DOMAIN log :
    ErrorStatus(log[i]) =>
      /\ Cardinality(Requests(log[i].ep)) = 1
      /\ \A j \in DOMAIN log : j > i => log[j].ep # "auth/request"
      /\ StoredAfter(i) = log[i].stored
      /\ credentials = log[i].stored
      /\ exc # "DeviceError"
      /\ op \in PassThroughMethods =>
           /\ i = Len(log)
           /\ log[i].msg # "" => (outcome = "returned" /\ value = ErrDict)
           /\ log[i].msg = "" => (outcome = "raised" /\ exc = "JSONDecodeError")

C12_Witness ==
  /\ Returned("put_beep") /\ log # <<>>
  /\ ErrorStatus(log[Len(log)])
  /\ value = ErrDict /\ credentials = pre /\ pre # NoCred

\* ===================================================================
\* C13 PrintJob round trip: for every wire record that has exactly the
\*     declared fields, with values of their declared kinds, PrintJob.parse
\*     returns; each time_* field with value n becomes a duration of exactly n
\*     seconds (125 gives 125 s, 600 gives 600 s); progress keeps the wire
\*     value (0.5); as_str_dict has the field names of the wire record and
\*     holds for each the string form of the parsed value.
\* ===================================================================
WellFormed(d) ==
  /\ DOMAIN d = JobFields
  /\ \A f \in DatetimeFields : Len(d[f].fraction) \in 1..6
  /\ \A f \in UuidFields : d[f].form \in {"canonical", "urn", "braces"}

\* timedelta.total_seconds()
TotalSeconds(td) == 86400 * td.days + td.seconds

C13_Parsed ==
  /\ outcome = "returned" /\ exc = NoExc
  /\ \A f \in {"time_elapsed", "time_total"} :
       /\ TotalSeconds(print_job[f]) = print_job_dict[f]
       /\ print_job[f].seconds \in 0..86399
  /\ print_job_dict.time_elapsed = 125 => print_job.time_elapsed = [days |-> 0, seconds |-> 125]
  /\ print_job_dict.time_total = 600 => print_job.time_total = [days |-> 0, seconds |-> 600]
  /\ print_job.progress.tenths = print_job_dict.progress.tenths
  /\ print_job_dict.progress = WireNumber(5, "real") => print_job.progress = [tenths |-> 5]

C13_Strings ==
  /\ DOMAIN value = DOMAIN print_job_dict
  /\ \A f \in DOMAIN value : value[f] \in STRING
  /\ \A f \in JobFields \ (DatetimeFields \cup UuidFields
                             \cup {"time_elapsed", "time_total", "progress"}) :
       value[f] = print_job_dict[f]
  /\ print_job_dict.time_elapsed = 125 => value.time_elapsed = "0:02:05"
  /\ print_job_dict.time_elapsed = 86399 => value.time_elapsed = "23:59:59"
  /\ print_job_dict.time_elapsed = 90061 => value.time_elapsed = "1 day, 1:01:01"
  /\ print_job_dict.time_total = 600 => value.time_total = "0:10:00"
  /\ print_job_dict.time_total = 172800 => value.time_total = "2 days, 0:00:00"
  /\ print_job_dict.datetime_started = DocStamp =>
       value.datetime_started = "2018-10-10 00:46:40.776000"
  /\ print_job_dict.datetime_started.fraction = <<0>> =>
       value.datetime_started = "2018-10-10 00:46:40"
  /\ print_job_dict.datetime_cleaned.fraction = <<1, 2, 3, 4, 5, 6>> =>
       value.datetime_cleaned = "2018-10-11 09:05:07.123456"
  /\ print_job_dict.uuid.int = 42 => value.uuid = "00000000-0000-0000-0000-000000000042"
  /\ print_job_dict.progress = WireNumber(5, "real") => value.progress = "0.5"
  /\ print_job_dict.progress = WireNumber(10, "int") => value.progress = "1.0"

C13_RoundTrip ==
  WellFormed(print_job_dict) =>
    /\ op \in {"PrintJob.parse", "PrintJob.as_str_dict"} => C13_Parsed
    /\ op = "PrintJob.as_str_dict" => C13_Strings

C13_Witness ==
  /\ op = "PrintJob.as_str_dict"
  /\ print_job_dict.time_elapsed = 125 /\ print_job_dict.time_total = 600
  /\ print_job_dict.progress = WireNumber(5, "real")
  /\ print_job_dict.datetime_started = DocStamp /\ print_job_dict.uuid.form = "urn"
  /\ value.time_elapsed = "0:02:05" /\ value.progress = "0.5"

\* ===================================================================
\* C15 On verification failure the credential is dropped for good: once
\*     auth/verify has answered 401 for the stored credential c inside
\*     get_credentials, c is never stored again and no later request carries
\*     it (the device issues fresh pairs); the request after the 401 answer is
\*     one auth/request, and if it fails the call is over with nothing stored,
\*     and the next call begins with an auth/request, not with a probe.
\* ===================================================================
\* the methods that begin with get_credentials
CredentialMethods ==
  PassThroughMethods \cup {"get_credentials", "digest_auth", "is_authorized", "get_print_job",
                           "get_print_job_time_elapsed", "get_print_job_time_total",
                           "into_ultimaker_json"}

\* what get_credentials does after a 401 answer of auth/verify, and how a
\* call begins when nothing is stored
C15_AfterRejection ==
  /\ \A i \in DOMAIN log :
       (Verify401(log[i]) /\ op # "get_auth_verify") =>
            /\ \A j \in DOMAIN log : j > i =>
                 /\ log[j].auth # log[i].auth /\ log[j].stored # log[i].auth
                 /\ log[j].arg # log[i].auth.id /\ log[j].issued # log[i].auth
            /\ i < Len(log) /\ log[i + 1].ep = "auth/request"
            /\ ~Issued(log[i + 1]) => (i + 1 = Len(log) /\ credentials = NoCred)
  /\ (op \in CredentialMethods /\ pre = NoCred) =>
       (log # <<>> /\ log[1].ep = "auth/request")

\* (The statement as claimed.)
C15_DroppedForGood ==
  /\ credentials.id \notin rejected \cup Dropped(op, log)
  /\ \A i \in DOMAIN log :
       /\ log[i].auth.id \notin rejected
       /\ log[i].stored.id \notin rejected
       /\ log[i].arg \notin rejected
       /\ log[i].issued.id \notin rejected
  /\ C15_AfterRejection

\* C15 as amended: no call but a caller's own set_credentials stores a
\* credential that get_credentials has dropped, and no auth/request issues
\* it again; a request carries a dropped credential, or asks about its id,
\* only when it was stored again that way before the call began.  After the
\* 401 answer the call sends one auth/request; if that fails the call is over
\* with nothing stored, and the next call that needs a credential begins
\* with an auth/request, not with a probe.
C15_StoresDropped ==
  credentials' # credentials /\ credentials'.id \in rejected' \cup Dropped(op', log')

C15_DroppedUnlessSetAgain ==
  /\ [](/\ \A i \in DOMAIN log :
            /\ log[i].issued.id \notin rejected
            /\ log[i].stored.id \in rejected => log[i].stored = pre
            /\ log[i].auth.id \in rejected => log[i].auth = pre
            /\ log[i].arg \in rejected => log[i].arg = pre.id
         /\ C15_AfterRejection)
  /\ [][C15_StoresDropped => op' = "set_credentials"]_vars

\* A call that began with nothing stored, after an earlier call lost its
\* credential to a 401 answer and could not get another.
C15_Witness ==
  /\ Returned("get_printer_status")
  /\ pre = NoCred /\ rejected # {}
  /\ log[1].ep = "auth/request" /\ credentials = log[1].issued
  /\ Requests("auth/verify") = {}

\* ===================================================================
\* C16 (as stated) Every authenticated endpoint request of a call that began
\*     with a stored credential is immediately preceded, in that call, by an
\*     auth/verify probe carrying that credential.
\* ===================================================================
Min(S) == CHOOSE x \in S : \A y \in S : x <= y

EndpointRequests == {i \in DOMAIN log : log[i].ep \in AuthEndpoints}

C16_ProbeImmediatelyBefore ==
  pre # NoCred =>
    \A i \in EndpointRequests :
      i > 1 /\ log[i - 1].ep = "auth/verify" /\ log[i - 1].auth = pre

\* C16 as amended: every authenticated endpoint request is sent by a call
\* that ran get_credentials just before it, and is never the first request of
\* its call.  If a credential c was stored when that get_credentials began,
\* exactly one auth/verify probe carrying c was sent and answered before the
\* endpoint request: immediately before it, the endpoint request then carrying
\* c, when the probe's answer was not 401; and with exactly one auth/request
\* between the two when the answer was 401, the endpoint request then
\* carrying the pair that auth/request issued.
\* the index of the first request of the get_credentials step before request i
RoundStart(i) ==
  IF i > 2 /\ log[i - 1].ep = "auth/request" /\ log[i - 2].ep = "auth/verify"
  THEN i - 2 ELSE i - 1

C16_OneProbePerRequest ==
  \A i \in EndpointRequests :
    /\ i > 1
    /\ log[i - 1].ep \in {"auth/verify", "auth/request"}
    /\ LET g == RoundStart(i)
       IN log[g].stored # NoCred =>
            /\ log[g].ep = "auth/verify" /\ log[g].kind = "http"
            /\ log[g].auth = log[g].stored
            /\ g = i - 1 => (VerifyPassed(log[g]) /\ log[i].auth = log[g].auth)
            /\ g = i - 2 => /\ Verify401(log[g]) /\ Issued(log[i - 1])
                            /\ log[i].auth = log[i - 1].issued
                            /\ log[i].auth # log[g].auth
            /\ (g = 1 \/ log[g - 1].ep \notin {"auth/verify", "auth/request"})
    /\ i = Min(EndpointRequests) =>
         (pre # NoCred <=> log[1].ep = "auth/verify") /\ (log[1].stored = pre)

C16_Witness ==
  /\ Returned("get_printer_status") /\ pre # NoCred
  /\ Len(log) = 3 /\ Verify401(log[1]) /\ log[1].auth = pre
  /\ Issued(log[2]) /\ log[3].ep = "printer/status" /\ log[3].auth = credentials

\* ===================================================================
\* C19 Whenever get_credentials returns normally, what it returns is a
\*     credential (never none) and is the stored credential of that moment;
\*     whenever none can be obtained (auth/verify or auth/request fails, or
\*     auth/request answers without a pair) the call raises.  So with a single
\*     caller neither digest_auth nor the get_auth_check of is_authorized ever
\*     reads the id or key of an absent credential.
\* ===================================================================
C19_ReturnsCredentialOrRaises ==
  /\ Free =>
       \A r \in get_credentials(Self) :
         /\ r.exc = NoExc => (r.ret # NoCred /\ r.ret = r.s.credentials)
         /\ r.s.credentials = NoCred => r.exc # NoExc
         /\ (\E i \in DOMAIN r.s.log :
               \/ r.s.log[i].kind # "http"
               \/ r.s.log[i].ep = "auth/request" /\ ~Issued(r.s.log[i])) =>
              r.exc # NoExc
  /\ Returned("get_credentials") => (value # NoCred /\ value = credentials)
  /\ op \in CredentialMethods => exc # "AttributeError"
  /\ \A i \in EndpointRequests : log[i].auth # NoCred /\ log[i].auth = log[i].stored
  /\ \A i \in Requests("auth/check") : log[i].arg # 0 /\ log[i].arg = log[i].stored.id
  /\ (outcome = "returned" /\ op \in CredentialMethods \ {"into_ultimaker_json"}) =>
       credentials # NoCred

\* No credential could be obtained: auth/request answered without a pair.
C19_Witness ==
  /\ op = "is_authorized" /\ outcome = "raised" /\ exc = "TypeError"
  /\ credentials = NoCred /\ log # <<>>
  /\ log[Len(log)].ep = "auth/request" /\ log[Len(log)].kind = "http"

\* ===================================================================
\* C18 Pairing makes progress.  While the device keeps recognising the
\*     stored credential (auth/verify does not answer 401), any is_authorized
\*     or get_credentials call leaves the stored credential as it is and sends
\*     no auth/request.  Hence, when the operator in the end approves and
\*     requests do not fail for ever, a caller that keeps polling
\*     is_authorized gets true for that same credential, unless the device
\*     forgets the credential first.
\* ===================================================================
Credentials == {Cred(n) : n \in 1..MaxIssued}

C18_KeptWhileKnown ==
  (op \in {"is_authorized", "get_credentials"} /\ pre # NoCred
     /\ log # <<>> /\ ~Verify401(log[1])) =>
    /\ credentials = pre
    /\ Requests("auth/request") = {}
    /\ \A i \in DOMAIN log : log[i].stored = pre
    /\ Cardinality(Requests("auth/verify")) = 1

AuthorizedFor(c) ==
  /\ Returned("is_authorized") /\ value = TRUE
  /\ pre = c /\ credentials = c
  /\ Requests("auth/request") = {}

C18_PairingProgress ==
  /\ []C18_KeptWhileKnown
  /\ \A c \in Credentials :
       (credentials = c /\ c.id \in known) ~> (AuthorizedFor(c) \/ c.id \notin known)

\* The credential of the first pairing request, approved, with true returned.
C18_Witness ==
  /\ AuthorizedFor(Cred(1))
  /\ rejected = {} /\ issued = 1 /\ 1 \in approved

\* ===================================================================
\* C14 The credential transitions are not safe with two callers on one
\*     Printer that do not take turns: when the device rejects the stored
\*     credential some interleaving makes both send an auth/request for that
\*     one rejection, the pair issued to one being overwritten while that
\*     caller still uses it, and some interleaving makes one caller probe
\*     auth/verify after the other has set the stored credential to none.
\*     With callers that take turns nothing of the kind is reachable.
\* ===================================================================
Active == {t \in Callers : callers[t].pc # "idle"}

C14_SafeWhenExclusive ==
  exclusive =>
    /\ hazards = {}
    /\ Hazards(callers, credentials) = {}
    /\ Cardinality(Active) <= 1 /\ Active \subseteq {holder}
    /\ \A t \in Callers :
         /\ callers[t].exc # "AttributeError"
         /\ callers[t].pc = "send" =>
              (callers[t].auth = credentials /\ credentials # NoCred)
         /\ callers[t].pc \in {"verify", "key"} => credentials # NoCred
         /\ callers[t].pc = "key" => callers[t].probe.id = credentials.id
         /\ callers[t].pc = "probe" => callers[t].probe = credentials

\* Both have happened to callers that do not take turns.
C14_Witness ==
  /\ ~exclusive
  /\ {"double pairing", "probe of none"} \subseteq hazards

====
